---------------------------- MODULE Spec2Model ----------------------------
(***************************************************************************)
(* A model of denovonear's clustering test (class AnalyseDeNovos in        *)
(* analyse_de_novos.py) and of the objects it works on.                    *)
(*                                                                         *)
(* Numbers.  A mean distance is an int (two positions) or the true         *)
(* quotient sum/len (three or more).  The model keeps every number as an   *)
(* exact fraction [num, den] and compares fractions by cross               *)
(* multiplication, which is how the quotients of small integers compare.   *)
(* analyse_de_novos.py names bisect and itertools; both are modelled by    *)
(* the algorithm of the standard library.                                  *)
(***************************************************************************)
EXTENDS Integers, Sequences, FiniteSets, TLC

\* ------------------------------------------------------------------ bounds
\* longest variant list handed to an analyse_* call or to the conversion
MaxLen == 2
\* largest sample_n of a direct build_distance_distribution call, and the
\* longest list handed to get_mean_distance_between_positions
MaxN == 3
\* largest iteration count (self.max_iter, or the max_iter argument)
MaxIter == 2

\* ----------------------------------------------------------------- numbers
Abs(x) == IF x < 0 THEN -x ELSE x

\* an int as a number of the model
IntNum(n) == [num |-> n, den |-> 1]

\* a / b with b > 0: Python's true division
TrueDiv(a, b) == [num |-> a, den |-> b]

\* x < y, x <= y and x = y for two numbers
Lt(x, y) == x.num * y.den < y.num * x.den
Le(x, y) == x.num * y.den <= y.num * x.den
NumEq(x, y) == x.num * y.den = y.num * x.den

\* "{0:0.1f}".format(x) for x >= 0: the decimal text with one digit after the
\* point, kept as its number of tenths; the nearest tenth, a tie (which no
\* quotient with den in {1, 3, 6} produces) going to the even tenth
FormatTenths(x) ==
    LET twenty == 20 * x.num
        q == twenty \div (2 * x.den)
        r == twenty % (2 * x.den)
    IN  [tenths |-> IF r > x.den \/ (r = x.den /\ q % 2 = 1) THEN q + 1 ELSE q]

\* sum(seq) for a list of ints
RECURSIVE SumSeq(_)
SumSeq(s) == IF s = << >> THEN 0 ELSE Head(s) + SumSeq(Tail(s))

\* ------------------------------------------------- the standard library
\* itertools.combinations(positions, 2): the pairs (positions[i], positions[j])
\* for i < j in lexicographic order of (i, j)
RECURSIVE PairsFrom(_, _, _)
PairsFrom(s, i, j) ==
    IF i >= Len(s) THEN << >>
    ELSE IF j > Len(s) THEN PairsFrom(s, i + 1, i + 2)
    ELSE << <<s[i], s[j]>> >> \o PairsFrom(s, i, j + 1)

combinations2(s) == PairsFrom(s, 1, 2)

\* sorted(distribution): ascending, stable (insertion of each element after
\* the elements not greater than it)
RECURSIVE InsertSorted(_, _)
InsertSorted(s, x) ==
    IF s = << >> THEN <<x>>
    ELSE IF Lt(x, Head(s)) THEN <<x>> \o s
    ELSE <<Head(s)>> \o InsertSorted(Tail(s), x)

RECURSIVE SortFrom(_, _)
SortFrom(acc, s) ==
    IF s = << >> THEN acc ELSE SortFrom(InsertSorted(acc, Head(s)), Tail(s))

\* a mutant of sorted: the list is returned as built
sorted_skipped(s) == s

sorted(s) == SortFrom(<< >>, s)

\* bisect.bisect_right(a, x): lo = 0, hi = len(a); while lo < hi:
\* mid = (lo+hi)//2; if x < a[mid]: hi = mid else: lo = mid+1; return lo
\* (a[mid] is 0-based: the model's a[mid + 1])
RECURSIVE BisectRightLoop(_, _, _, _)
BisectRightLoop(a, x, lo, hi) ==
    IF lo >= hi THEN lo
    ELSE LET mid == (lo + hi) \div 2
         IN  IF Lt(x, a[mid + 1]) THEN BisectRightLoop(a, x, lo, mid)
             ELSE BisectRightLoop(a, x, mid + 1, hi)

\* a mutant of bisect_right: bisect.bisect_left, the insertion point before the
\* elements equal to x
RECURSIVE BisectLeftLoop(_, _, _, _)
BisectLeftLoop(a, x, lo, hi) ==
    IF lo >= hi THEN lo
    ELSE LET mid == (lo + hi) \div 2
         IN  IF Lt(a[mid + 1], x) THEN BisectLeftLoop(a, x, mid + 1, hi)
             ELSE BisectLeftLoop(a, x, lo, mid)

bisect_left(a, x) == BisectLeftLoop(a, x, 0, Len(a))

bisect_right(a, x) == BisectRightLoop(a, x, 0, Len(a))

\* ------------------------------------------------------------- the gene
\* The transcript handed to AnalyseDeNovos is an Interval built by
\* construct_gene_object from exon and CDS ranges (inclusive, in genomic
\* order).  The test gene: two exons, the first base of the first exon
\* untranslated, an intron of five bases between them.
GeneExons == << <<1, 3>>, <<9, 10>> >>
GeneCds == << <<2, 3>>, <<9, 10>> >>

Transcript(name, strand) ==
    [name |-> name, start |-> 0, end |-> 13, strand |-> strand,
     exons |-> GeneExons, cds |-> GeneCds]

Transcripts == {Transcript("ENST_fwd", "+"), Transcript("ENST_rev", "-")}

\* every genomic position of the gene's range
GenePositions(t) == t.start .. t.end

\* Interval.in_coding_region(pos)
in_coding_region(t, pos) ==
    \E i \in 1..Len(t.cds) : t.cds[i][1] <= pos /\ pos <= t.cds[i][2]

\* Interval.get_cds_start(): the genomic position of the first coding base
\* in reading direction
get_cds_start(t) ==
    IF t.strand = "+" THEN t.cds[1][1] ELSE t.cds[Len(t.cds)][2]

\* the bases of CDS interval k and of the CDS intervals before it in reading
\* direction
RECURSIVE PrecedingLength(_, _)
PrecedingLength(t, k) ==
    IF k < 1 \/ k > Len(t.cds) THEN 0
    ELSE (t.cds[k][2] - t.cds[k][1] + 1)
         + PrecedingLength(t, IF t.strand = "+" THEN k - 1 ELSE k + 1)

\* the CDS offset of a position inside a CDS interval: the lengths of the
\* preceding CDS intervals plus the offset within its own interval
CdsOffset(t, pos) ==
    LET i == CHOOSE k \in 1..Len(t.cds) :
                 t.cds[k][1] <= pos /\ pos <= t.cds[k][2]
    IN  IF t.strand = "+"
        THEN PrecedingLength(t, i - 1) + (pos - t.cds[i][1])
        ELSE PrecedingLength(t, i + 1) + (t.cds[i][2] - pos)

\* outcomes of a call: a value, or the exception it raised
Ok(v) == [exc |-> "none", val |-> v]
Raise(e) == [exc |-> e.type, err |-> e]

\* Interval.get_coding_distance(pos_1, pos_2): asserts that both positions are
\* in the coding region, then gives the distance between their CDS offsets
get_coding_distance(t, pos_1, pos_2) ==
    IF in_coding_region(t, pos_1) /\ in_coding_region(t, pos_2)
    THEN Ok(Abs(CdsOffset(t, pos_2) - CdsOffset(t, pos_1)))
    ELSE Raise([type |-> "AssertionError"])

\* the distance of a position to the nearer boundary of an exon
ExonDistance(exon, pos) ==
    LET a == Abs(exon[1] - pos)
        b == Abs(exon[2] - pos)
    IN  IF a < b THEN a ELSE b

\* Interval.find_closest_exon(pos): the (start, end) of the exon with the
\* nearest boundary, the first such exon in genomic order
find_closest_exon(t, pos) ==
    LET best == CHOOSE i \in 1..Len(t.exons) :
                   /\ \A k \in 1..Len(t.exons) :
                         ExonDistance(t.exons[i], pos) <= ExonDistance(t.exons[k], pos)
                   /\ \A k \in 1..(i - 1) :
                         ExonDistance(t.exons[k], pos) > ExonDistance(t.exons[i], pos)
    IN  t.exons[best]

\* ------------------------------------------------ the site-rate table
\* SiteRates gives one WeightedChoice per consequence class; choice() returns
\* one of its CDS positions, cum_probs is the cumulative mass of the sites
\* (here every site of rate 1).  The functional sites are the missense and
\* the nonsense sites together.
WeightedChoice(sites) ==
    [choices |-> sites, cum_probs |-> [i \in 1..Len(sites) |-> i]]

SiteRates ==
    [missense |-> WeightedChoice(<<0, 3>>),
     nonsense |-> WeightedChoice(<<1>>),
     functional |-> WeightedChoice(<<0, 1, 3>>)]

get_missense_rates_for_gene(site_weights) == site_weights.missense
get_nonsense_rates_for_gene(site_weights) == site_weights.nonsense
get_functional_rates_for_gene(site_weights) == site_weights.functional

\* WeightedChoice.choice(): the sites a draw can return
choice(weights) == {weights.choices[i] : i \in 1..Len(weights.choices)}

\* ------------------------------------------------ AnalyseDeNovos: helpers
\* a mutant of get_mean_distance_between_positions: the mean distance between
\* consecutive positions
mean_of_consecutive(positions) ==
    IF ~(Len(positions) > 1) THEN Raise([type |-> "AssertionError"])
    ELSE LET distances == [k \in 1..(Len(positions) - 1) |->
                              Abs(positions[k] - positions[k + 1])]
         IN  Ok(TrueDiv(SumSeq(distances), Len(distances)))

\* get_mean_distance_between_positions(positions)
get_mean_distance_between_positions(positions) ==
    IF ~(Len(positions) > 1) THEN Raise([type |-> "AssertionError"])
    ELSE IF Len(positions) = 2
    THEN Ok(IntNum(Abs(positions[1] - positions[2])))
    ELSE LET pos_pairs == combinations2(positions)
             distances == [k \in 1..Len(pos_pairs) |->
                              Abs(pos_pairs[k][1] - pos_pairs[k][2])]
         IN  Ok(TrueDiv(SumSeq(distances), Len(distances)))

\* the tests of lines 125 and 127: the variant affects a splice site
near_splice_site(boundary_dist) == boundary_dist < 3

\* the body of the conversion loop for one position (lines 114-132)
convert_position(t, pos) ==
    LET cds_start == get_cds_start(t)
        inside == get_coding_distance(t, cds_start, pos)
        exon == find_closest_exon(t, pos)
        start_dist == Abs(exon[1] - pos)
        end_dist == Abs(exon[2] - pos)
    IN  IF inside.exc = "none" THEN inside
        ELSE IF near_splice_site(start_dist)
        THEN get_coding_distance(t, cds_start, exon[1])
        ELSE IF near_splice_site(end_dist)
        THEN get_coding_distance(t, cds_start, exon[2])
        ELSE Raise([type |-> "ValueError",
                    distance |-> IF start_dist > end_dist THEN start_dist
                                 ELSE end_dist,
                    pos |-> pos,
                    transcript |-> t.name])

\* convert_de_novos_to_cds_positions(de_novos): the loop of lines 113-134,
\* cds_positions being the list built so far
RECURSIVE ConvertLoop(_, _, _)
ConvertLoop(t, de_novos, cds_positions) ==
    IF de_novos = << >> THEN Ok(cds_positions)
    ELSE LET dist == convert_position(t, Head(de_novos))
         IN  IF dist.exc = "none"
             THEN ConvertLoop(t, Tail(de_novos), Append(cds_positions, dist.val))
             ELSE dist

convert_de_novos_to_cds_positions(t, de_novos) ==
    ConvertLoop(t, de_novos, << >>)

\* a mutant of too_few_variants: only the empty list is too short
no_variants(sample_n) == sample_n < 1

\* the test of line 58: too few variants for a distance
too_few_variants(sample_n) == sample_n < 2

\* a mutant of more_positions_needed: a repeated position is drawn again
distinct_positions_needed(positions, sample_n) ==
    Cardinality({positions[i] : i \in 1..Len(positions)}) < sample_n

\* the test of line 89: the inner loop draws while it holds
more_positions_needed(positions, sample_n) == Len(positions) < sample_n

\* a mutant of weights_for: analyse_nonsense asks for the missense rates
weights_copied(op, table) ==
    CASE op = "analyse_missense" -> get_missense_rates_for_gene(table)
      [] op = "analyse_nonsense" -> get_missense_rates_for_gene(table)
      [] op = "analyse_functional" -> get_functional_rates_for_gene(table)

\* lines 23, 30 and 37: the distribution each entry point asks the table for
weights_for(op, table) ==
    CASE op = "analyse_missense" -> get_missense_rates_for_gene(table)
      [] op = "analyse_nonsense" -> get_nonsense_rates_for_gene(table)
      [] op = "analyse_functional" -> get_functional_rates_for_gene(table)

\* the "NA" of line 56
NA == [na |-> TRUE]

\* lines 66-72: the probability and the pair returned
significance(dist, observed_distance) ==
    LET pos == bisect_right(dist, observed_distance)
    IN  IF Len(dist) = 0 THEN Raise([type |-> "ZeroDivisionError"])
        ELSE Ok([distance |-> FormatTenths(observed_distance),
                 prob |-> TrueDiv(pos, Len(dist))])

\* ------------------------------------------------------------------ state
VARIABLES
    transcript,     \* self.transcript
    site_weights,   \* self.site_weights
    max_iter,       \* self.max_iter
    call            \* per calling thread: the frame of the method it runs

vars == <<transcript, site_weights, max_iter, call>>

\* a thread that runs no method of the object
Idle ==
    [pc |-> "idle", op |-> "none", de_novos |-> << >>,
     weights |-> WeightedChoice(<< >>), sample_n |-> 0, limit |-> 0,
     iteration |-> 0, positions |-> << >>, distribution |-> << >>,
     dist |-> << >>, cds_positions |-> << >>, observed |-> IntNum(0),
     draws |-> 0, out |-> [exc |-> "pending"]]

Threads == DOMAIN call

\* lists of length 0..n over a set
Lists(S, n) == UNION {[1..k -> S] : k \in 0..n}

\* the variants given to the analyse_* calls: an untranslated exon base (1),
\* coding bases (2, 9), a base two past the end of an exon (5), an intron
\* base three from either exon (6)
VariantPositions == {1, 2, 5, 6, 9}

\* the CDS offsets of the test gene
CdsOffsets == 0..3

EntryPoints == {"analyse_missense", "analyse_nonsense", "analyse_functional"}

\* __init__ (lines 11-17) with one calling thread
Init ==
    /\ transcript \in Transcripts
    /\ site_weights = SiteRates
    /\ max_iter \in 0..MaxIter
    /\ call = [c \in {1} |-> Idle]

\* the frame of thread c after a step
Step(c, frame) == call' = [call EXCEPT ![c] = frame]

\* a mutant of keep_distribution: the list is kept where every call reads it
keep_distribution_shared(frames, c, distribution) ==
    [d \in DOMAIN frames |->
        IF d = c THEN [frames[d] EXCEPT !.dist = distribution, !.pc = "observe"]
        ELSE [frames[d] EXCEPT !.dist = distribution]]

\* line 61 on return of the build: analyse_de_novos keeps the sorted list in
\* its local dist
keep_distribution(frames, c, distribution) ==
    [frames EXCEPT ![c] = [@ EXCEPT !.dist = distribution, !.pc = "observe"]]

\* a mutant of Analyse: the observed positions are converted and looked up
\* without the null distribution having been built
AnalyseWithoutBuild(c, op, de_novo_events) ==
    /\ call[c].pc = "idle"
    /\ LET weights == weights_for(op, site_weights)
           sample_n == Len(de_novo_events)
           entered == [Idle EXCEPT !.op = op, !.de_novos = de_novo_events,
                                   !.weights = weights, !.sample_n = sample_n]
       IN  IF too_few_variants(sample_n)
           THEN Step(c, [entered EXCEPT !.pc = "done",
                            !.out = Ok([distance |-> NA, prob |-> NA])])
           ELSE Step(c, [entered EXCEPT !.pc = "observe", !.limit = max_iter])
    /\ UNCHANGED <<transcript, site_weights, max_iter>>

\* analyse_missense / analyse_nonsense / analyse_functional up to the start of
\* the build (lines 19-38 and 56-61)
Analyse(c, op, de_novo_events) ==
    /\ call[c].pc = "idle"
    /\ LET weights == weights_for(op, site_weights)
           sample_n == Len(de_novo_events)
           entered == [Idle EXCEPT !.op = op, !.de_novos = de_novo_events,
                                   !.weights = weights, !.sample_n = sample_n]
       IN  IF too_few_variants(sample_n)
           THEN Step(c, [entered EXCEPT !.pc = "done",
                            !.out = Ok([distance |-> NA, prob |-> NA])])
           ELSE Step(c, [entered EXCEPT !.pc = "build", !.limit = max_iter])
    /\ UNCHANGED <<transcript, site_weights, max_iter>>

AnalyseMissense(c, pool) ==
    \E de_novo_events \in Lists(pool, MaxLen) :
        Analyse(c, "analyse_missense", de_novo_events)

AnalyseNonsense(c, pool) ==
    \E de_novo_events \in Lists(pool, MaxLen) :
        Analyse(c, "analyse_nonsense", de_novo_events)

AnalyseFunctional(c, pool) ==
    \E de_novo_events \in Lists(pool, MaxLen) :
        Analyse(c, "analyse_functional", de_novo_events)

\* build_distance_distribution called on its own (lines 74-84)
BuildDistanceDistribution(c) ==
    /\ call[c].pc = "idle"
    /\ \E op \in EntryPoints, sample_n \in 1..MaxN, limit \in 0..MaxIter :
          Step(c, [Idle EXCEPT !.pc = "build",
                      !.op = "build_distance_distribution",
                      !.weights = weights_for(op, site_weights),
                      !.sample_n = sample_n, !.limit = limit])
    /\ UNCHANGED <<transcript, site_weights, max_iter>>

\* lines 85-88: the outer loop starts an iteration
BeginIteration(c) ==
    /\ call[c].pc = "build"
    /\ call[c].iteration < call[c].limit
    /\ Step(c, [call[c] EXCEPT !.iteration = @ + 1, !.positions = << >>,
                               !.pc = "draw"])
    /\ UNCHANGED <<transcript, site_weights, max_iter>>

\* lines 89-91: one draw of the inner loop
Draw(c) ==
    /\ call[c].pc = "draw"
    /\ more_positions_needed(call[c].positions, call[c].sample_n)
    /\ \E site \in choice(call[c].weights) :
          Step(c, [call[c] EXCEPT !.positions = Append(@, site),
                                  !.draws = @ + 1])
    /\ UNCHANGED <<transcript, site_weights, max_iter>>

\* lines 93-94: the iteration's distance joins the distribution
EndIteration(c) ==
    /\ call[c].pc = "draw"
    /\ ~more_positions_needed(call[c].positions, call[c].sample_n)
    /\ LET distance == get_mean_distance_between_positions(call[c].positions)
       IN  IF distance.exc = "none"
           THEN Step(c, [call[c] EXCEPT !.distribution = Append(@, distance.val),
                                        !.pc = "build"])
           ELSE Step(c, [call[c] EXCEPT !.out = distance, !.pc = "raised"])
    /\ UNCHANGED <<transcript, site_weights, max_iter>>

\* lines 96-98: the loop is over, the list is sorted and returned (to the
\* caller, or to line 61 of analyse_de_novos)
FinishBuild(c) ==
    /\ call[c].pc = "build"
    /\ ~(call[c].iteration < call[c].limit)
    /\ LET distribution == sorted(call[c].distribution)
       IN  IF call[c].op = "build_distance_distribution"
           THEN Step(c, [call[c] EXCEPT !.out = Ok(distribution), !.pc = "done"])
           ELSE call' = keep_distribution(call, c, distribution)
    /\ UNCHANGED <<transcript, site_weights, max_iter>>

\* lines 63-64: the observed positions and their distance
Observe(c) ==
    /\ call[c].pc = "observe"
    /\ LET cds_positions ==
               convert_de_novos_to_cds_positions(transcript, call[c].de_novos)
       IN  IF cds_positions.exc = "none"
           THEN LET observed_distance ==
                        get_mean_distance_between_positions(cds_positions.val)
                IN  IF observed_distance.exc = "none"
                    THEN Step(c, [call[c] EXCEPT
                                     !.cds_positions = cds_positions.val,
                                     !.observed = observed_distance.val,
                                     !.pc = "significance"])
                    ELSE Step(c, [call[c] EXCEPT !.out = observed_distance,
                                                 !.pc = "raised"])
           ELSE Step(c, [call[c] EXCEPT !.out = cds_positions, !.pc = "raised"])
    /\ UNCHANGED <<transcript, site_weights, max_iter>>

\* lines 66-72: the probability, and the return
Significance(c) ==
    /\ call[c].pc = "significance"
    /\ LET out == significance(call[c].dist, call[c].observed)
       IN  Step(c, [call[c] EXCEPT !.out = out,
                       !.pc = IF out.exc = "none" THEN "done" ELSE "raised"])
    /\ UNCHANGED <<transcript, site_weights, max_iter>>

\* convert_de_novos_to_cds_positions called on its own (lines 100-136)
ConvertDeNovos(c) ==
    /\ call[c].pc = "idle"
    /\ \E de_novos \in Lists(GenePositions(transcript), MaxLen) :
          LET out == convert_de_novos_to_cds_positions(transcript, de_novos)
          IN  Step(c, [Idle EXCEPT
                          !.op = "convert_de_novos_to_cds_positions",
                          !.de_novos = de_novos, !.out = out,
                          !.pc = IF out.exc = "none" THEN "done" ELSE "raised"])
    /\ UNCHANGED <<transcript, site_weights, max_iter>>

\* get_mean_distance_between_positions called on its own (lines 138-160)
GetMeanDistance(c) ==
    /\ call[c].pc = "idle"
    /\ \E positions \in Lists(CdsOffsets, MaxN) :
          LET out == get_mean_distance_between_positions(positions)
          IN  Step(c, [Idle EXCEPT
                          !.op = "get_mean_distance_between_positions",
                          !.positions = positions, !.out = out,
                          !.pc = IF out.exc = "none" THEN "done" ELSE "raised"])
    /\ UNCHANGED <<transcript, site_weights, max_iter>>

\* the method has returned or raised: its locals are gone, the thread may
\* call again
Return(c) ==
    /\ call[c].pc \in {"done", "raised"}
    /\ Step(c, Idle)
    /\ UNCHANGED <<transcript, site_weights, max_iter>>

Next ==
    \/ \E c \in Threads : AnalyseMissense(c, VariantPositions)
    \/ \E c \in Threads : AnalyseNonsense(c, VariantPositions)
    \/ \E c \in Threads : AnalyseFunctional(c, VariantPositions)
    \/ \E c \in Threads : BuildDistanceDistribution(c)
    \/ \E c \in Threads : BeginIteration(c)
    \/ \E c \in Threads : Draw(c)
    \/ \E c \in Threads : EndIteration(c)
    \/ \E c \in Threads : FinishBuild(c)
    \/ \E c \in Threads : Observe(c)
    \/ \E c \in Threads : Significance(c)
    \/ \E c \in Threads : ConvertDeNovos(c)
    \/ \E c \in Threads : GetMeanDistance(c)
    \/ \E c \in Threads : Return(c)

Spec == Init /\ [][Next]_vars

\* Two threads call the entry points of one object at the same time; each
\* step of the model is a step of one of them.  The variants: a coding base
\* (2) and the intron base no exon is near (6).
ConcurrentPositions == {2, 6}

InitConcurrent ==
    /\ transcript = Transcript("ENST_fwd", "+")
    /\ site_weights = SiteRates
    /\ max_iter = 1
    /\ call = [c \in {1, 2} |-> Idle]

NextConcurrent ==
    \/ \E c \in Threads : AnalyseMissense(c, ConcurrentPositions)
    \/ \E c \in Threads : AnalyseNonsense(c, ConcurrentPositions)
    \/ \E c \in Threads : AnalyseFunctional(c, ConcurrentPositions)
    \/ \E c \in Threads : BeginIteration(c)
    \/ \E c \in Threads : Draw(c)
    \/ \E c \in Threads : EndIteration(c)
    \/ \E c \in Threads : FinishBuild(c)
    \/ \E c \in Threads : Observe(c)
    \/ \E c \in Threads : Significance(c)
    \/ \E c \in Threads : Return(c)

SpecConcurrent == InitConcurrent /\ [][NextConcurrent]_vars

\* ------------------------------------------- loading a gene (load_gene.py)
\* The annotation service (EnsemblRequest) as the functions of load_gene.py
\* see it: the transcript IDs of the gene in the order it lists them, per
\* transcript the length of its protein sequence or the ValueError of asking
\* for it, and whether the CDS built from the genomic sequence matches the
\* CDS it gives (construct_gene_object raises ValueError when it does not).
TranscriptIds == {"ENST_A", "ENST_B", "ENST_C"}

ProteinLengths == {1, 2}

\* the exon and CDS ranges of the transcripts: ENST_A is the test gene,
\* ENST_B has another second exon, ENST_C is the second exon of ENST_A alone
EnsemblRanges(transcript_id) ==
    CASE transcript_id = "ENST_A" -> [exons |-> GeneExons, cds |-> GeneCds]
      [] transcript_id = "ENST_B" ->
             [exons |-> << <<1, 3>>, <<5, 6>> >>, cds |-> << <<2, 3>>, <<5, 6>> >>]
      [] transcript_id = "ENST_C" ->
             [exons |-> << <<9, 10>> >>, cds |-> << <<9, 10>> >>]

\* the elements of a list
Range(s) == {s[i] : i \in 1..Len(s)}

\* the lists without repeats over a set
DistinctLists(S) ==
    {s \in Lists(S, Cardinality(S)) :
        \A i, j \in 1..Len(s) : i # j => s[i] # s[j]}

Ensembls ==
    UNION {{[transcript_ids |-> ids, protein |-> p, cds_matches |-> m] :
               p \in [Range(ids) -> {Raise([type |-> "ValueError"])}
                                       \cup {Ok(n) : n \in ProteinLengths}],
               m \in [Range(ids) -> BOOLEAN]} :
           ids \in DistinctLists(TranscriptIds)}

\* de novo positions: in ENST_A and ENST_B (2), in ENST_B only (5), in ENST_A
\* and ENST_C (9), in no transcript (7)
GeneDeNovos == {2, 5, 7, 9}

\* get_transcript_lengths (lines 22-44): the (transcript ID, length) items of
\* the dictionary in the order the IDs were entered; an ID whose protein
\* sequence raises ValueError is left out
RECURSIVE get_transcript_lengths(_, _)
get_transcript_lengths(ensembl, transcript_ids) ==
    IF transcript_ids = << >> THEN << >>
    ELSE LET transcript_id == Head(transcript_ids)
             seq == ensembl.protein[transcript_id]
             rest == get_transcript_lengths(ensembl, Tail(transcript_ids))
         IN  IF seq.exc = "none" THEN << <<transcript_id, seq.val>> >> \o rest
             ELSE rest

\* sorted(items, key=lambda x: x[1]): ascending by length, stable
RECURSIVE InsertByLength(_, _)
InsertByLength(s, x) ==
    IF s = << >> THEN <<x>>
    ELSE IF x[2] < Head(s)[2] THEN <<x>> \o s
    ELSE <<Head(s)>> \o InsertByLength(Tail(s), x)

RECURSIVE SortByLength(_, _)
SortByLength(acc, s) ==
    IF s = << >> THEN acc
    ELSE SortByLength(InsertByLength(acc, Head(s)), Tail(s))

reversed(s) == [i \in 1..Len(s) |-> s[Len(s) + 1 - i]]

\* get_transcript_ids_sorted_by_length (lines 95-117)
get_transcript_ids_sorted_by_length(ensembl) ==
    reversed(SortByLength(<< >>,
                 get_transcript_lengths(ensembl, ensembl.transcript_ids)))

\* construct_gene_object (lines 46-75)
construct_gene_object(ensembl, transcript_id) ==
    IF ensembl.cds_matches[transcript_id]
    THEN Ok([Transcript(transcript_id, "+") EXCEPT
                !.exons = EnsemblRanges(transcript_id).exons,
                !.cds = EnsemblRanges(transcript_id).cds])
    ELSE Raise([type |-> "ValueError"])

\* get_de_novos_in_transcript (lines 77-93)
get_de_novos_in_transcript(t, de_novos) ==
    SelectSeq(de_novos, LAMBDA de_novo : in_coding_region(t, de_novo))

\* the local gene of load_gene before the loop has assigned it
Unbound == [unbound |-> TRUE]

\* the loop of load_gene (lines 142-153): gene is the transcript constructed
\* last, the loop breaks at one that holds all de novos
RECURSIVE LoadLoop(_, _, _, _)
LoadLoop(ensembl, transcripts, de_novos, gene) ==
    IF transcripts = << >> THEN gene
    ELSE LET made == construct_gene_object(ensembl, Head(transcripts)[1])
         IN  IF made.exc = "none"
             THEN IF Len(get_de_novos_in_transcript(made.val, de_novos))
                         = Len(de_novos)
                  THEN made.val
                  ELSE LoadLoop(ensembl, Tail(transcripts), de_novos, made.val)
             ELSE LoadLoop(ensembl, Tail(transcripts), de_novos, gene)

\* load_gene (lines 119-161); reading the unassigned local gene at line 158
\* raises UnboundLocalError
load_gene(ensembl, de_novos) ==
    LET transcripts == get_transcript_ids_sorted_by_length(ensembl)
    IN  IF Len(transcripts) = 0 THEN Raise([type |-> "ValueError"])
        ELSE LET gene == LoadLoop(ensembl, transcripts, de_novos, Unbound)
             IN  IF gene = Unbound THEN Raise([type |-> "UnboundLocalError"])
                 ELSE IF Len(get_de_novos_in_transcript(gene, de_novos))
                             # Len(de_novos)
                 THEN Raise([type |-> "IndexError"])
                 ELSE Ok(gene)

\* the loop of count_de_novos_per_transcript (lines 184-192)
RECURSIVE CountLoop(_, _, _)
CountLoop(ensembl, transcripts, de_novos) ==
    IF transcripts = << >> THEN << >>
    ELSE LET transcript_id == Head(transcripts)[1]
             length == Head(transcripts)[2]
             made == construct_gene_object(ensembl, transcript_id)
             rest == CountLoop(ensembl, Tail(transcripts), de_novos)
         IN  IF made.exc # "none" THEN rest
             ELSE LET total == Len(get_de_novos_in_transcript(made.val, de_novos))
                  IN  IF total > 0
                      THEN << <<transcript_id, total, length>> >> \o rest
                      ELSE rest

\* count_de_novos_per_transcript (lines 163-194)
count_de_novos_per_transcript(ensembl, de_novos) ==
    LET transcripts == get_transcript_ids_sorted_by_length(ensembl)
    IN  IF Len(transcripts) = 0 THEN Raise([type |-> "ValueError"])
        ELSE Ok(CountLoop(ensembl, transcripts, de_novos))

\* max(item[k] for item in items), for a list that is not empty
MaxOf(items, k) ==
    CHOOSE m \in {items[i][k] : i \in 1..Len(items)} :
        \A i \in 1..Len(items) : items[i][k] <= m

\* a mutant of with_most_de_novos: the transcripts with the fewest de novos
with_fewest_de_novos(counts) ==
    SelectSeq(counts, LAMBDA item :
                  \A i \in 1..Len(counts) : item[2] <= counts[i][2])

\* lines 220-221: the transcripts with the most de novos
with_most_de_novos(counts) ==
    SelectSeq(counts, LAMBDA item : item[2] = MaxOf(counts, 2))

\* lines 224-225: of those, the transcripts with the greatest length
with_greatest_length(transcripts) ==
    SelectSeq(transcripts, LAMBDA item : item[3] = MaxOf(transcripts, 3))

\* a mutant of leftover_de_novos: the de novos of the chosen transcript stay
all_de_novos_again(de_novos, denovos_in_gene) == Range(de_novos)

\* line 232: set(de_novos) - set(denovos_in_gene)
leftover_de_novos(de_novos, denovos_in_gene) ==
    Range(de_novos) \ Range(denovos_in_gene)

\* list(a set): its elements once each, in some order
ListsOfSet(S) == {s \in DistinctLists(S) : Range(s) = S}

\* the frame of a function of load_gene.py; for minimise_transcripts, de_novos
\* is the argument of the innermost call, levels the argument and the
\* max_transcript of each call above it and result their max_transcript lists
\* joined
GeneFrame(op, ensembl, de_novos) ==
    [pc |-> "idle", op |-> op, ensembl |-> ensembl, given |-> de_novos,
     de_novos |-> de_novos, depth |-> 0, levels |-> << >>, result |-> << >>,
     out |-> [exc |-> "pending"]]

\* load_gene(ensembl, gene_id, de_novos)
LoadGene(c) ==
    /\ call[c].pc = "idle"
    /\ \E ensembl \in Ensembls, de_novos \in Lists(GeneDeNovos, MaxLen) :
          LET out == load_gene(ensembl, de_novos)
          IN  Step(c, [GeneFrame("load_gene", ensembl, de_novos) EXCEPT
                          !.out = out,
                          !.pc = IF out.exc = "none" THEN "done" ELSE "raised"])
    /\ UNCHANGED <<transcript, site_weights, max_iter>>

\* minimise_transcripts(ensembl, gene_id, de_novos) is called
MinimiseTranscripts(c) ==
    /\ call[c].pc = "idle"
    /\ \E ensembl \in Ensembls, de_novos \in Lists(GeneDeNovos, MaxLen) :
          Step(c, [GeneFrame("minimise_transcripts", ensembl, de_novos) EXCEPT
                      !.pc = "minimise"])
    /\ UNCHANGED <<transcript, site_weights, max_iter>>

\* lines 214-215: no de novos are left; the transcripts chosen on the way
\* (max_transcript + ... + []) are returned
MinimiseEmpty(c) ==
    /\ call[c].pc = "minimise"
    /\ Len(call[c].de_novos) = 0
    /\ Step(c, [call[c] EXCEPT !.out = Ok(call[c].result), !.pc = "done"])
    /\ UNCHANGED <<transcript, site_weights, max_iter>>

\* lines 217-236: the transcript for the de novos at hand is chosen, and the
\* function calls itself with the leftovers; an exception of a call leaves all
\* the calls above it
MinimiseRecurse(c) ==
    /\ call[c].pc = "minimise"
    /\ Len(call[c].de_novos) # 0
    /\ LET counts == count_de_novos_per_transcript(call[c].ensembl, call[c].de_novos)
       IN  IF counts.exc # "none"
           THEN Step(c, [call[c] EXCEPT !.out = counts, !.pc = "raised"])
           ELSE IF counts.val = << >>
           THEN Step(c, [call[c] EXCEPT !.out = Raise([type |-> "ValueError"]),
                                        !.pc = "raised"])
           ELSE LET transcripts == with_most_de_novos(counts.val)
                    max_transcript == with_greatest_length(transcripts)
                    gene == construct_gene_object(call[c].ensembl,
                                                  max_transcript[1][1])
                IN  IF gene.exc # "none"
                    THEN Step(c, [call[c] EXCEPT !.out = gene, !.pc = "raised"])
                    ELSE LET denovos_in_gene ==
                                 get_de_novos_in_transcript(gene.val, call[c].de_novos)
                         IN  \E leftovers \in ListsOfSet(
                                    leftover_de_novos(call[c].de_novos, denovos_in_gene)) :
                                 Step(c, [call[c] EXCEPT
                                             !.de_novos = leftovers,
                                             !.depth = @ + 1,
                                             !.levels = Append(@,
                                                 [de_novos |-> call[c].de_novos,
                                                  max_transcript |-> max_transcript]),
                                             !.result = @ \o max_transcript])
    /\ UNCHANGED <<transcript, site_weights, max_iter>>

\* --------------------------- mutation rates (construct_mutation_rates.py)
\* None
None == [none |-> TRUE]

\* Interval.get_cds_end(): the genomic position of the last coding base in
\* reading direction
get_cds_end(t) ==
    IF t.strand = "+" THEN t.cds[Len(t.cds)][2] ELSE t.cds[1][1]

\* Interval.get_position_on_chrom(cds_pos): the genomic position of a CDS
\* offset
get_position_on_chrom(t, cds_pos) ==
    CHOOSE pos \in GenePositions(t) :
        in_coding_region(t, pos) /\ CdsOffset(t, pos) = cds_pos

\* the CDS offset of the last coding base
CdsLength(t) == get_coding_distance(t, get_cds_start(t), get_cds_end(t)).val

\* WeightedChoice.add_choice(site, prob): the site joins the choices, the
\* cumulative mass grows by its rate
add_choice(weights, site, prob) ==
    [choices |-> Append(weights.choices, site),
     cum_probs |-> Append(weights.cum_probs,
                          prob + (IF weights.cum_probs = << >> THEN 0
                                  ELSE weights.cum_probs[Len(weights.cum_probs)]))]

\* the rate model (mut_dict), as the rate it yields per genomic position for
\* each consequence class; 0 where no change of that class exists
MutDicts ==
    {[missense |-> [pos \in 0..13 |-> 1],
      nonsense |-> [pos \in 0..13 |-> IF pos \in {3, 9} THEN 1 ELSE 0]],
     [missense |-> [pos \in 0..13 |-> IF pos < 6 THEN 2 ELSE 1],
      nonsense |-> [pos \in 0..13 |-> IF pos \in {6, 10} THEN 3 ELSE 0]]}

\* the table of one class: the CDS offsets in order, without the sites of no
\* rate and without the sites whose genomic position is in the coding region
\* of the mask
RECURSIVE BuildRates(_, _, _, _, _)
BuildRates(t, rate, masked_sites, cds_pos, weights) ==
    IF cds_pos > CdsLength(t) THEN weights
    ELSE LET bp == get_position_on_chrom(t, cds_pos)
             masked == IF masked_sites = None THEN FALSE
                       ELSE in_coding_region(masked_sites, bp)
         IN  BuildRates(t, rate, masked_sites, cds_pos + 1,
                        IF masked \/ rate[bp] = 0 THEN weights
                        ELSE add_choice(weights, cds_pos, rate[bp]))

\* SiteRates(transcript, mut_dict, masked_sites): the tables are built when
\* the object is constructed
SiteRatesOf(t, mut_dict, masked_sites) ==
    [missense |-> BuildRates(t, mut_dict.missense, masked_sites, 0,
                             WeightedChoice(<< >>)),
     nonsense |-> BuildRates(t, mut_dict.nonsense, masked_sites, 0,
                             WeightedChoice(<< >>)),
     functional |-> BuildRates(t, [pos \in 0..13 |-> mut_dict.missense[pos]
                                                     + mut_dict.nonsense[pos]],
                               masked_sites, 0, WeightedChoice(<< >>))]

\* the ranges of a list and the ranges of another that are not among them
RangesUnion(a, b) ==
    a \o SelectSeq(b, LAMBDA r : r \notin Range(a))

\* Interval + Interval: the exons and the CDS ranges of both
add_intervals(combined, other) ==
    [combined EXCEPT !.exons = RangesUnion(@, other.exons),
                     !.cds = RangesUnion(@, other.cds)]

\* a mutant of masked_sites_for: no transcript is ever masked
nothing_masked(objects, combined_transcript) == None

\* lines 139-143: the mask handed to SiteRates; combined_transcript is the
\* number of the combined object, 0 while it is None
masked_sites_for(objects, combined_transcript) ==
    IF combined_transcript = 0 THEN None ELSE objects[combined_transcript]

\* a mutant of has_sites: the distribution is read whether it has sites or not
sites_assumed(rates) == TRUE

\* the tests of lines 153 and 155
has_sites(rates) == Len(rates.choices) > 0

\* rates.cum_probs[-1]
last_cum_prob(rates) ==
    IF rates.cum_probs = << >> THEN Raise([type |-> "IndexError"])
    ELSE Ok(rates.cum_probs[Len(rates.cum_probs)])

\* lines 153-156: the rate grown by the final cumulative mass
add_rate(total, rates) ==
    IF has_sites(rates)
    THEN LET last == last_cum_prob(rates)
         IN  IF last.exc = "none" THEN Ok(total + last.val) ELSE last
    ELSE Ok(total)

\* get_mutation_rate(gene_id, transcripts, mut_dict, ensembl) is called, and
\* lines 132-134.  objects holds the Interval objects made so far, made the
\* number of each transcript's object.
GetMutationRate(c) ==
    /\ call[c].pc = "idle"
    /\ \E ensembl \in Ensembls, mut_dict \in MutDicts :
          Step(c, [pc |-> "rates", op |-> "get_mutation_rate",
                   ensembl |-> ensembl, mut_dict |-> mut_dict,
                   transcripts |-> ensembl.transcript_ids, index |-> 0,
                   missense |-> 0, nonsense |-> 0, combined_transcript |-> 0,
                   objects |-> << >>, made |-> << >>, masks |-> << >>,
                   tables |-> << >>, out |-> [exc |-> "pending"]])
    /\ UNCHANGED <<transcript, site_weights, max_iter>>

\* lines 136-156: one transcript of the loop
RateIteration(c) ==
    /\ call[c].pc = "rates"
    /\ call[c].index < Len(call[c].transcripts)
    /\ LET transcript_id == call[c].transcripts[call[c].index + 1]
           made == construct_gene_object(call[c].ensembl, transcript_id)
           objects == Append(call[c].objects, made.val)
           this == Len(objects)
           mask == masked_sites_for(objects, call[c].combined_transcript)
           rates == SiteRatesOf(objects[this], call[c].mut_dict, mask)
           combined == IF call[c].combined_transcript = 0
                       THEN Append(objects, objects[this])
                       ELSE [objects EXCEPT ![call[c].combined_transcript] =
                                add_intervals(@, objects[this])]
           missense_rates == get_missense_rates_for_gene(rates)
           nonsense_rates == get_nonsense_rates_for_gene(rates)
           missense == add_rate(call[c].missense, missense_rates)
           nonsense == add_rate(call[c].nonsense, nonsense_rates)
       IN  IF made.exc # "none"
           THEN Step(c, [call[c] EXCEPT !.out = made, !.pc = "raised"])
           ELSE IF missense.exc # "none"
           THEN Step(c, [call[c] EXCEPT !.out = missense, !.pc = "raised"])
           ELSE IF nonsense.exc # "none"
           THEN Step(c, [call[c] EXCEPT !.out = nonsense, !.pc = "raised"])
           ELSE Step(c, [call[c] EXCEPT
                            !.index = @ + 1,
                            !.objects = combined,
                            !.made = Append(@, this),
                            !.combined_transcript =
                                IF @ = 0 THEN Len(combined) ELSE @,
                            !.masks = Append(@, mask),
                            !.tables = Append(@, rates),
                            !.missense = missense.val,
                            !.nonsense = nonsense.val])
    /\ UNCHANGED <<transcript, site_weights, max_iter>>

\* line 158
RateReturn(c) ==
    /\ call[c].pc = "rates"
    /\ ~(call[c].index < Len(call[c].transcripts))
    /\ Step(c, [call[c] EXCEPT
                   !.out = Ok(<<call[c].missense, call[c].nonsense>>),
                   !.pc = "done"])
    /\ UNCHANGED <<transcript, site_weights, max_iter>>

\* one caller of the functions that load a gene and estimate its rates
InitGene ==
    /\ transcript = Transcript("ENST_fwd", "+")
    /\ site_weights = SiteRates
    /\ max_iter = 0
    /\ call = [c \in {1} |-> Idle]

NextGene ==
    \/ \E c \in Threads : LoadGene(c)
    \/ \E c \in Threads : MinimiseTranscripts(c)
    \/ \E c \in Threads : MinimiseEmpty(c)
    \/ \E c \in Threads : MinimiseRecurse(c)
    \/ \E c \in Threads : GetMutationRate(c)
    \/ \E c \in Threads : RateIteration(c)
    \/ \E c \in Threads : RateReturn(c)
    \/ \E c \in Threads : Return(c)

SpecGene == InitGene /\ [][NextGene]_vars

\* ------------- conservation scores (interval_conservation_methods.py)
\* an Interval with its conservation_scores attribute, a dictionary from CDS
\* offset to score
WithScores(t, conservation_scores) ==
    [name |-> t.name, start |-> t.start, end |-> t.end, strand |-> t.strand,
     exons |-> t.exons, cds |-> t.cds,
     conservation_scores |-> conservation_scores]

\* the dictionaries load_conservation_scores can give: a score for every
\* position of a stretch of the chromosome, or no score at all
ScoreTables ==
    {[pos \in lo..hi |-> 100 + pos] : lo \in 0..13, hi \in 0..13}

\* dict[key] = value
SetItem(dict, key, value) ==
    [k \in DOMAIN dict \cup {key} |-> IF k = key THEN value ELSE dict[k]]

\* min and max of the keys of a dictionary that is not empty
MinKey(dict) == CHOOSE k \in DOMAIN dict : \A j \in DOMAIN dict : k <= j
MaxKey(dict) == CHOOSE k \in DOMAIN dict : \A j \in DOMAIN dict : j <= k

\* line 32: the test for scores that lack the CDS
no_data_for_cds(cds_chrom_end, cons_end) ==
    cds_chrom_end > cons_end \/ cons_end < cds_chrom_end

\* lines 23-36 of add_conservation_scores, entered directly or from line 252
\* of load_conservation; min() and max() of no scores raise ValueError
BeginScores(c, op, conservation_scores) ==
    LET entered == [pc |-> "scores", op |-> op, scores |-> conservation_scores,
                    before |-> transcript.conservation_scores,
                    cds_length |-> CdsLength(transcript), cds_pos |-> 0,
                    out |-> [exc |-> "pending"]]
        cds_chrom_end == get_cds_end(transcript)
        failed == \/ DOMAIN conservation_scores = {}
                  \/ no_data_for_cds(cds_chrom_end, MaxKey(conservation_scores))
    IN  IF failed
        THEN /\ Step(c, IF op = "load_conservation"
                        THEN [entered EXCEPT !.out = Ok(transcript), !.pc = "done"]
                        ELSE [entered EXCEPT
                                 !.out = Raise([type |-> "ValueError"]),
                                 !.pc = "raised"])
             /\ UNCHANGED transcript
        ELSE /\ Step(c, entered)
             /\ transcript' = [transcript EXCEPT !.conservation_scores = << >>]

\* transcript.add_conservation_scores(scores) called on its own
AddConservationScores(c) ==
    /\ call[c].pc = "idle"
    /\ \E conservation_scores \in ScoreTables :
          BeginScores(c, "add_conservation_scores", conservation_scores)
    /\ UNCHANGED <<site_weights, max_iter>>

\* load_conservation(transcript, folder) (lines 239-252)
LoadConservation(c) ==
    /\ call[c].pc = "idle"
    /\ \E scores \in ScoreTables : BeginScores(c, "load_conservation", scores)
    /\ UNCHANGED <<site_weights, max_iter>>

\* lines 37-40: the score of one CDS offset; a chromosome position without a
\* score raises KeyError, which load_conservation does not catch
StoreScore(c) ==
    /\ call[c].pc = "scores"
    /\ call[c].cds_pos < call[c].cds_length + 1
    /\ LET chrom_pos == get_position_on_chrom(transcript, call[c].cds_pos)
       IN  IF chrom_pos \in DOMAIN call[c].scores
           THEN /\ transcript' =
                       [transcript EXCEPT !.conservation_scores =
                           SetItem(@, call[c].cds_pos, call[c].scores[chrom_pos])]
                /\ Step(c, [call[c] EXCEPT !.cds_pos = @ + 1])
           ELSE /\ Step(c, [call[c] EXCEPT
                               !.out = Raise([type |-> "KeyError"]),
                               !.pc = "raised"])
                /\ UNCHANGED transcript
    /\ UNCHANGED <<site_weights, max_iter>>

\* the loop of line 37 is over: add_conservation_scores returns, and
\* load_conservation returns the transcript (line 256)
FinishScores(c) ==
    /\ call[c].pc = "scores"
    /\ ~(call[c].cds_pos < call[c].cds_length + 1)
    /\ Step(c, [call[c] EXCEPT
                   !.out = IF call[c].op = "load_conservation"
                           THEN Ok(transcript) ELSE Ok(None),
                   !.pc = "done"])
    /\ UNCHANGED <<transcript, site_weights, max_iter>>

\* a transcript that carries the scores of an earlier annotation
InitConservation ==
    /\ transcript \in {WithScores(t, [cds_pos \in 0..CdsLength(t) |-> 0]) :
                          t \in Transcripts}
    /\ site_weights = SiteRates
    /\ max_iter = 0
    /\ call = [c \in {1} |-> Idle]

NextConservation ==
    \/ \E c \in Threads : AddConservationScores(c)
    \/ \E c \in Threads : LoadConservation(c)
    \/ \E c \in Threads : StoreScore(c)
    \/ \E c \in Threads : FinishScores(c)
    \/ \E c \in Threads : Return(c)

SpecConservation == InitConservation /\ [][NextConservation]_vars

\* ------------------------------------------------------------ the claims
\* the frames of the clustering test's entry points
IsAnalyse(frame) == frame.op \in EntryPoints

\* the number of times x occurs in a list
Count(s, x) == Cardinality({i \in 1..Len(s) : s[i] = x})

\* the sum of f over a finite set of index pairs
RECURSIVE PairSum(_, _)
PairSum(P, s) ==
    IF P = {} THEN 0
    ELSE LET p == CHOOSE q \in P : TRUE
         IN  Abs(s[p[1]] - s[p[2]]) + PairSum(P \ {p}, s)

\* the reference metric: the sum of |p_i - p_j| over the unordered pairs i < j,
\* over the number C(N,2) of those pairs
ReferenceMean(s) ==
    LET N == Len(s)
        P == {p \in (1..N) \X (1..N) : p[1] < p[2]}
    IN  [num |-> PairSum(P, s), den |-> (N * (N - 1)) \div 2]

\* C1: an analyse_* call with fewer than 2 variants has returned the pair
\* ("NA", "NA"): it has not raised, no position was drawn and no variant was
\* converted.
C1_FewVariantsGiveNA ==
    \A c \in Threads :
        (IsAnalyse(call[c]) /\ Len(call[c].de_novos) < 2) =>
            /\ call[c].pc = "done"
            /\ call[c].out = Ok([distance |-> NA, prob |-> NA])
            /\ call[c].draws = 0
            /\ call[c].positions = << >>
            /\ call[c].cds_positions = << >>

\* a call with one variant, which no exon is near, has returned
C1_Witness ==
    \E c \in Threads :
        /\ call[c].op = "analyse_functional"
        /\ call[c].de_novos = <<6>>
        /\ call[c].pc = "done"

\* the list the build has returned: to its caller, or to analyse_de_novos
Returned(frame) ==
    IF frame.op = "build_distance_distribution" THEN frame.out.val
    ELSE frame.dist

HasReturnedList(frame) ==
    \/ frame.op = "build_distance_distribution" /\ frame.pc = "done"
    \/ IsAnalyse(frame) /\ frame.pc \in {"observe", "significance"}

\* C2: the list build_distance_distribution returns is sorted ascending, has
\* length max_iter, and holds each per-iteration mean distance as often as the
\* iterations produced it.
C2_ReturnedSortedComplete ==
    \A c \in Threads :
        HasReturnedList(call[c]) =>
            LET ret == Returned(call[c])
            IN  /\ Len(ret) = call[c].limit
                /\ \A i \in 1..Len(ret) : \A j \in i..Len(ret) : Le(ret[i], ret[j])
                /\ \A i \in 1..Len(ret) :
                      Count(ret, ret[i]) = Count(call[c].distribution, ret[i])
                /\ \A i \in 1..Len(call[c].distribution) :
                      Count(ret, call[c].distribution[i])
                          = Count(call[c].distribution, call[c].distribution[i])

\* a build of two iterations with samples of three has returned, and the
\* second iteration's distance was the smaller one
C2_Witness ==
    \E c \in Threads :
        /\ call[c].op = "build_distance_distribution"
        /\ call[c].pc = "done"
        /\ call[c].sample_n = 3
        /\ Len(call[c].distribution) = 2
        /\ Lt(call[c].distribution[2], call[c].distribution[1])

\* C3: get_mean_distance_between_positions rejects a list shorter than 2,
\* gives abs(a-b) for two positions and the mean of all C(N,2) pairwise
\* distances for more; [10, 20, 30] gives 40/3.
C3_MeanIsPairwiseMean ==
    /\ \A c \in Threads :
          (call[c].op = "get_mean_distance_between_positions") =>
              LET positions == call[c].positions
              IN  /\ Len(positions) < 2 =>
                        call[c].pc = "raised" /\ call[c].out.exc = "AssertionError"
                  /\ Len(positions) = 2 =>
                        /\ call[c].pc = "done"
                        /\ call[c].out.val = IntNum(Abs(positions[1] - positions[2]))
                  /\ Len(positions) > 2 =>
                        /\ call[c].pc = "done"
                        /\ call[c].out.val.den = (Len(positions) * (Len(positions) - 1)) \div 2
                        /\ NumEq(call[c].out.val, ReferenceMean(positions))
    /\ LET example == get_mean_distance_between_positions(<<10, 20, 30>>)
       IN  example.exc = "none" /\ NumEq(example.val, [num |-> 40, den |-> 3])

\* the mean of three positions whose consecutive distances average to more
C3_Witness ==
    \E c \in Threads :
        /\ call[c].op = "get_mean_distance_between_positions"
        /\ call[c].positions = <<0, 3, 1>>
        /\ call[c].pc = "done"
        /\ NumEq(call[c].out.val, IntNum(2))

OutsideCds(pos) == ~in_coding_region(transcript, pos)

\* the boundaries of the closest exon that are less than 3 from the position
NearBoundaries(pos) ==
    LET exon == find_closest_exon(transcript, pos)
    IN  {b \in {exon[1], exon[2]} : Abs(b - pos) < 3}

\* outside the CDS and within 2 bp of a boundary of the closest exon
AtSpliceSite(pos) == OutsideCds(pos) /\ NearBoundaries(pos) # {}

\* outside the CDS and 3 or more from both boundaries of the closest exon
Unmapped(pos) == OutsideCds(pos) /\ NearBoundaries(pos) = {}

\* the CDS offset the mapper gives for a position
MappedOffset(pos) ==
    get_coding_distance(transcript, get_cds_start(transcript), pos)

IsConversion(frame) == frame.op = "convert_de_novos_to_cds_positions"

\* C5: the conversion of positions that are in the CDS or within 2 bp of a
\* boundary of their closest exon succeeds, and a position of the second kind
\* gets the CDS offset of such a boundary.
C5_SpliceSitesConvert ==
    \A c \in Threads :
        LET de_novos == call[c].de_novos
        IN  (/\ IsConversion(call[c])
             /\ \A i \in 1..Len(de_novos) :
                   ~OutsideCds(de_novos[i]) \/ AtSpliceSite(de_novos[i])) =>
                /\ call[c].out.exc = "none"
                /\ \A i \in 1..Len(de_novos) :
                      AtSpliceSite(de_novos[i]) =>
                          \E b \in NearBoundaries(de_novos[i]) :
                              /\ MappedOffset(b).exc = "none"
                              /\ call[c].out.val[i] = MappedOffset(b).val

\* the positions of a list before the first that satisfies none of the tests
\* of the conversion
FirstUnmapped(de_novos) ==
    CHOOSE i \in 1..Len(de_novos) :
        /\ Unmapped(de_novos[i])
        /\ \A k \in 1..(i - 1) : ~Unmapped(de_novos[k])

\* C6: a list with a position that is outside the CDS and 3 or more from both
\* boundaries of its closest exon makes the conversion raise ValueError, which
\* leaves analyse_* without a pair; a conversion that returns gives one CDS
\* offset per position, in order.
C6_UnmappedRaisesValueError ==
    \A c \in Threads :
        LET de_novos == call[c].de_novos
            bad == \E i \in 1..Len(de_novos) : Unmapped(de_novos[i])
        IN  /\ (IsConversion(call[c]) /\ bad) =>
                  call[c].pc = "raised" /\ call[c].out.exc = "ValueError"
            /\ (IsAnalyse(call[c]) /\ bad /\ call[c].pc \in {"done", "raised"}
                    /\ Len(de_novos) >= 2) =>
                  call[c].pc = "raised" /\ call[c].out.exc = "ValueError"
            /\ (IsConversion(call[c]) /\ call[c].pc = "done") =>
                  /\ Len(call[c].out.val) = Len(de_novos)
                  /\ \A i \in 1..Len(de_novos) :
                        call[c].out.val[i] = convert_position(transcript, de_novos[i]).val

\* C7: the ValueError of the conversion names the transcript, the first
\* position that could not be mapped and the distance from that position to
\* the nearer boundary of its closest exon.
C7_ErrorCarriesNearestDistance ==
    \A c \in Threads :
        (call[c].pc = "raised" /\ call[c].out.exc = "ValueError") =>
            LET pos == call[c].de_novos[FirstUnmapped(call[c].de_novos)]
            IN  /\ call[c].out.err.transcript = transcript.name
                /\ call[c].out.err.pos = pos
                /\ call[c].out.err.distance =
                       ExonDistance(find_closest_exon(transcript, pos), pos)

\* what analyse_de_novos gives for a variant list and the simulated distances,
\* whichever entry point called it
ReferenceOutcome(de_novos, simulated) ==
    IF Len(de_novos) < 2 THEN Ok([distance |-> NA, prob |-> NA])
    ELSE LET converted == convert_de_novos_to_cds_positions(transcript, de_novos)
         IN  IF converted.exc # "none" THEN converted
             ELSE IF Len(simulated) = 0 THEN Raise([type |-> "ZeroDivisionError"])
             ELSE LET observed == ReferenceMean(converted.val)
                      not_greater == {i \in 1..Len(simulated) :
                                         Le(simulated[i], observed)}
                  IN  Ok([distance |-> FormatTenths(observed),
                          prob |-> [num |-> Cardinality(not_greater),
                                    den |-> Len(simulated)]])

\* C8: each entry point draws from the distribution of its own class and
\* otherwise does what analyse_de_novos does: its outcome is determined by the
\* variant list and the simulated distances alone.
C8_EntryPointsDifferInWeights ==
    \A c \in Threads :
        IsAnalyse(call[c]) =>
            /\ call[c].op = "analyse_missense" =>
                  call[c].weights = site_weights.missense
            /\ call[c].op = "analyse_nonsense" =>
                  call[c].weights = site_weights.nonsense
            /\ call[c].op = "analyse_functional" =>
                  call[c].weights = site_weights.functional
            /\ call[c].sample_n = Len(call[c].de_novos)
            /\ call[c].sample_n >= 2 => call[c].limit = max_iter
            /\ call[c].pc \in {"done", "raised"} =>
                  call[c].out = ReferenceOutcome(call[c].de_novos, call[c].distribution)

\* analyse_nonsense has returned ("2.0", 2/2) for two coding variants, having
\* drawn from the nonsense sites
C8_Witness ==
    \E c \in Threads :
        /\ call[c].op = "analyse_nonsense"
        /\ call[c].pc = "done"
        /\ call[c].de_novos = <<2, 9>>
        /\ call[c].weights = WeightedChoice(<<1>>)
        /\ call[c].out.val = [distance |-> [tenths |-> 20],
                               prob |-> [num |-> 2, den |-> 2]]

\* an analyse_* call past its build
PastBuild(frame) ==
    /\ IsAnalyse(frame)
    /\ frame.sample_n >= 2
    /\ frame.pc \in {"observe", "significance", "done", "raised"}

C9_OwnDistribution ==
    \A c \in Threads :
        /\ PastBuild(call[c]) =>
              /\ call[c].draws = max_iter * call[c].sample_n
              /\ Len(call[c].distribution) = max_iter
              /\ call[c].pc # "raised" => call[c].dist = sorted(call[c].distribution)
        /\ (IsAnalyse(call[c]) /\ call[c].pc \in {"done", "raised"}) =>
              call[c].out = ReferenceOutcome(call[c].de_novos, call[c].distribution)

C9_StepIsLocal ==
    /\ transcript' = transcript
    /\ site_weights' = site_weights
    /\ max_iter' = max_iter
    /\ \A c \in Threads :
          /\ (call[c].pc # "idle" /\ call'[c].pc # "idle") =>
                call'[c].de_novos = call[c].de_novos
          /\ call'[c] # call[c] =>
                \A d \in Threads \ {c} : call'[d] = call[d]

\* C9: the calls share no mutable state.  No step of a call changes the
\* object's transcript, site_weights or max_iter, the variant list of a running
\* call, or anything of another thread's call; every call has drawn its own
\* max_iter * N positions for its own distribution, and its outcome is
\* determined by its variant list and the distances of its own draws.
C9_NoSharedState == [](C9_OwnDistribution) /\ [][C9_StepIsLocal]_vars

\* both threads are inside a call, one past its build and one drawing
C9_Witness ==
    /\ call[1].pc = "significance"
    /\ call[2].pc = "draw"
    /\ call[2].draws = 1

\* the steps a construction has left: per iteration its start, sample_n draws
\* and its end, and the final sort
Remaining(frame) ==
    CASE frame.pc = "build" ->
             (frame.limit - frame.iteration) * (frame.sample_n + 2) + 1
      [] frame.pc = "draw" ->
             (frame.sample_n - Len(frame.positions)) + 1
             + (frame.limit - frame.iteration) * (frame.sample_n + 2) + 1
      [] OTHER -> 0

Samples(frame) ==
    /\ frame.op \in EntryPoints \cup {"build_distance_distribution"}
    /\ frame.sample_n >= 2

C10_DrawsCounted ==
    \A c \in Threads :
        Samples(call[c]) =>
            /\ call[c].pc = "draw" =>
                  /\ call[c].iteration \in 1..call[c].limit
                  /\ Len(call[c].positions) <= call[c].sample_n
                  /\ call[c].draws = (call[c].iteration - 1) * call[c].sample_n
                                         + Len(call[c].positions)
            /\ call[c].pc = "build" =>
                  /\ call[c].iteration \in 0..call[c].limit
                  /\ call[c].draws = call[c].iteration * call[c].sample_n
                  /\ Len(call[c].distribution) = call[c].iteration
            /\ (call[c].pc = "draw"
                    /\ more_positions_needed(call[c].positions, call[c].sample_n)) =>
                  choice(call[c].weights) # {}
            /\ HasReturnedList(call[c]) =>
                  /\ call[c].draws = call[c].limit * call[c].sample_n
                  /\ Len(call[c].distribution) = call[c].limit

C10_StepCountsDown ==
    \A c \in Threads :
        (Samples(call[c]) /\ call[c].pc \in {"build", "draw"}
            /\ call'[c] # call[c]) =>
            /\ Remaining(call'[c]) = Remaining(call[c]) - 1
            /\ call'[c].pc # "raised"
            /\ call'[c].draws \in {call[c].draws, call[c].draws + 1}

\* C10: the construction of the null distribution for N >= 2 terminates after
\* max_iter * N draws.  A draw the inner loop needs can be made; every step of
\* the construction leaves one step fewer of the max_iter * (N + 2) + 1 it
\* started with and none raises; each iteration draws exactly N positions,
\* repeated ones included, and the finished construction has drawn
\* max_iter * N.
C10_BuildTerminates == [](C10_DrawsCounted) /\ [][C10_StepCountsDown]_vars

\* a finished build of two iterations of three draws whose last iteration drew
\* one site three times
C10_Witness ==
    \E c \in Threads :
        /\ call[c].op = "build_distance_distribution"
        /\ call[c].pc = "done"
        /\ call[c].sample_n = 3
        /\ call[c].limit = 2
        /\ call[c].draws = 6
        /\ call[c].positions = <<3, 3, 3>>

\* C13: an analyse_* call with 2 or more variants that all map to CDS offsets
\* returns a pair whose probability is k / max_iter for an integer k in
\* 0..max_iter, whatever max_iter is (0 included); it does not raise.
C13_ProbabilityInUnitInterval ==
    \A c \in Threads :
        (/\ IsAnalyse(call[c])
         /\ Len(call[c].de_novos) >= 2
         /\ convert_de_novos_to_cds_positions(transcript, call[c].de_novos).exc = "none"
         /\ call[c].pc \in {"done", "raised"}) =>
            /\ call[c].pc = "done"
            /\ call[c].out.exc = "none"
            /\ \E k \in 0..max_iter :
                  call[c].out.val.prob = [num |-> k, den |-> max_iter]

\* the position of a call in the order guard, construction, conversion, lookup
StepRank(frame) ==
    CASE frame.pc = "idle" -> 0
      [] frame.pc \in {"build", "draw"} -> 1
      [] frame.pc = "observe" -> 2
      [] frame.pc = "significance" -> 3
      [] OTHER -> 4

\* what each position of an analysis call has behind it
C18_BuiltBeforeConverted ==
    \A c \in Threads :
        (IsAnalyse(call[c]) /\ call[c].sample_n >= 2) =>
            /\ call[c].pc \in {"build", "draw"} =>
                  /\ call[c].cds_positions = << >>
                  /\ call[c].dist = << >>
                  /\ call[c].out.exc = "pending"
            /\ StepRank(call[c]) >= 2 =>
                  /\ call[c].draws = max_iter * call[c].sample_n
                  /\ Len(call[c].distribution) = max_iter
            /\ call[c].pc = "observe" =>
                  call[c].cds_positions = << >> /\ call[c].out.exc = "pending"
            /\ call[c].pc = "significance" =>
                  /\ Len(call[c].dist) = max_iter
                  /\ \A i \in 1..Len(call[c].dist) : \A j \in i..Len(call[c].dist) :
                        Le(call[c].dist[i], call[c].dist[j])
                  /\ \A i \in 1..Len(call[c].dist) :
                        Count(call[c].dist, call[c].dist[i])
                            = Count(call[c].distribution, call[c].dist[i])
            /\ (call[c].pc = "raised" /\ call[c].out.exc = "ValueError") =>
                  call[c].draws = max_iter * call[c].sample_n

\* the steps of an analysis call go forward, and only the construction stays
\* at its position for more than one step
C18_StepsGoForward ==
    \A c \in Threads :
        (IsAnalyse(call'[c]) /\ call'[c] # call[c]) =>
            /\ StepRank(call'[c]) >= StepRank(call[c])
            /\ StepRank(call[c]) = 0 => StepRank(call'[c]) \in {1, 4}
            /\ StepRank(call[c]) = 0 =>
                  (StepRank(call'[c]) = 4 <=> Len(call'[c].de_novos) < 2)
            /\ StepRank(call[c]) = 1 => StepRank(call'[c]) \in {1, 2}
            /\ StepRank(call[c]) = 2 => StepRank(call'[c]) \in {3, 4}
            /\ StepRank(call[c]) = 3 => StepRank(call'[c]) = 4

\* C18: within one analysis call the guard, the construction of the null
\* distribution, the conversion of the observed positions and the lookup
\* happen in that order, each at most once: every one of the max_iter * N
\* draws is made before a position is converted, so the ValueError for an
\* unmapped position comes after all draws, and the lookup reads the complete,
\* sorted distribution.
C18_FixedOrderOfSteps ==
    [](C18_BuiltBeforeConverted) /\ [][C18_StepsGoForward]_vars

\* a call of two iterations has made its four draws and then raised the
\* ValueError for the intron base 6
C18_Witness ==
    \E c \in Threads :
        /\ IsAnalyse(call[c])
        /\ call[c].de_novos = <<2, 6>>
        /\ call[c].pc = "raised"
        /\ call[c].out.exc = "ValueError"
        /\ call[c].draws = 4
        /\ max_iter = 2

\* the frames of get_mutation_rate
IsRates(frame) == frame.op = "get_mutation_rate"

\* the object construct_gene_object gives for the i-th transcript of the list
Constructed(frame, i) ==
    construct_gene_object(frame.ensembl, frame.transcripts[i]).val

\* the genomic positions in the coding region of one of the first n transcripts
CoveredBy(frame, n) ==
    {pos \in 0..13 : \E k \in 1..n : in_coding_region(Constructed(frame, k), pos)}

\* the genomic positions of the sites of a distribution
SitePositions(t, weights) ==
    {get_position_on_chrom(t, weights.choices[i]) : i \in 1..Len(weights.choices)}

\* the sum of a rate over a set of positions
RECURSIVE SumOver(_, _)
SumOver(S, rate) ==
    IF S = {} THEN 0
    ELSE LET pos == CHOOSE q \in S : TRUE
         IN  rate[pos] + SumOver(S \ {pos}, rate)

\* C11: in get_mutation_rate the first transcript's table is built without a
\* mask and the table of every later transcript with a mask whose coding
\* region is exactly the union of the coding regions of the transcripts before
\* it; no genomic position is a site of two transcripts' missense (nonsense)
\* tables, so the gene's rate is the sum of the rates over the positions of
\* the union; the transcript objects stay as constructed.
C11_MaskIsUnionOfEarlier ==
    \A c \in Threads :
        IsRates(call[c]) =>
            LET f == call[c]
            IN  /\ Len(f.masks) = f.index
                /\ Len(f.tables) = f.index
                /\ \A i \in 1..f.index :
                      /\ i = 1 => f.masks[i] = None
                      /\ i > 1 =>
                            /\ f.masks[i] # None
                            /\ \A pos \in 0..13 :
                                  in_coding_region(f.masks[i], pos)
                                      <=> pos \in CoveredBy(f, i - 1)
                      /\ f.objects[f.made[i]] = Constructed(f, i)
                /\ \A pos \in 0..13 :
                      /\ Cardinality({i \in 1..f.index :
                             pos \in SitePositions(Constructed(f, i),
                                                   f.tables[i].missense)}) <= 1
                      /\ Cardinality({i \in 1..f.index :
                             pos \in SitePositions(Constructed(f, i),
                                                   f.tables[i].nonsense)}) <= 1
                /\ f.missense = SumOver(CoveredBy(f, f.index), f.mut_dict.missense)
                /\ f.nonsense = SumOver(CoveredBy(f, f.index), f.mut_dict.nonsense)

\* the rate of ENST_A, ENST_B (which shares the first exon) and ENST_C (inside
\* ENST_A) has been returned: six coding positions of missense rate 1
C11_Witness ==
    \E c \in Threads :
        /\ IsRates(call[c])
        /\ call[c].pc = "done"
        /\ call[c].transcripts = <<"ENST_A", "ENST_B", "ENST_C">>
        /\ call[c].out.val = <<6, 2>>

\* the final cumulative mass of a distribution, 0 for one without sites
FinalMass(rates) ==
    IF rates.choices = << >> THEN 0 ELSE rates.cum_probs[Len(rates.cum_probs)]

RECURSIVE MassOfTables(_, _)
MassOfTables(tables, class) ==
    IF tables = << >> THEN 0
    ELSE FinalMass(Head(tables)[class]) + MassOfTables(Tail(tables), class)

\* C12: the gene's missense (nonsense) rate is the sum over the transcripts
\* processed of the final cumulative mass of the transcript's missense
\* (nonsense) distribution, 0 for a distribution without sites; the function
\* raises nothing but the ValueError of a transcript that cannot be
\* constructed, and returns the two sums.
C12_EmptyDistributionAddsNothing ==
    \A c \in Threads :
        IsRates(call[c]) =>
            LET f == call[c]
            IN  /\ f.missense = MassOfTables(f.tables, "missense")
                /\ f.nonsense = MassOfTables(f.tables, "nonsense")
                /\ \A i \in 1..Len(f.tables) :
                      /\ Len(f.tables[i].missense.cum_probs)
                             = Len(f.tables[i].missense.choices)
                      /\ Len(f.tables[i].nonsense.cum_probs)
                             = Len(f.tables[i].nonsense.choices)
                /\ f.pc = "raised" =>
                      /\ f.out.exc = "ValueError"
                      /\ ~f.ensembl.cds_matches[f.transcripts[f.index + 1]]
                /\ f.pc = "done" =>
                      /\ f.index = Len(f.transcripts)
                      /\ f.out = Ok(<<f.missense, f.nonsense>>)

\* the rate of ENST_A and then ENST_C has been returned: every site of ENST_C
\* was captured by ENST_A, its distributions have no sites
C12_Witness ==
    \E c \in Threads :
        /\ IsRates(call[c])
        /\ call[c].pc = "done"
        /\ call[c].transcripts = <<"ENST_A", "ENST_C">>
        /\ call[c].tables[2].missense.choices = << >>
        /\ call[c].tables[2].missense.cum_probs = << >>
        /\ call[c].out.val[1] = FinalMass(call[c].tables[1].missense)

\* the transcript can be constructed and its coding region holds every de novo
HoldsAll(ensembl, transcript_id, de_novos) ==
    LET made == construct_gene_object(ensembl, transcript_id)
    IN  /\ made.exc = "none"
        /\ \A i \in 1..Len(de_novos) : in_coding_region(made.val, de_novos[i])

\* C14: load_gene goes through the transcripts with a protein sequence by
\* decreasing protein length and returns the first that can be constructed and
\* holds every de novo; it raises ValueError for a gene without such
\* transcripts and IndexError whenever no transcript holds all de novos,
\* construction failures included.
C14_LoadGeneOutcome ==
    \A c \in Threads :
        (call[c].op = "load_gene") =>
            LET f == call[c]
                transcripts == get_transcript_ids_sorted_by_length(f.ensembl)
                fits == {i \in 1..Len(transcripts) :
                            HoldsAll(f.ensembl, transcripts[i][1], f.given)}
                first == CHOOSE i \in fits : \A k \in fits : i <= k
            IN  /\ \A i \in 1..Len(transcripts) : \A j \in i..Len(transcripts) :
                      transcripts[i][2] >= transcripts[j][2]
                /\ {transcripts[i][1] : i \in 1..Len(transcripts)}
                       = {id \in Range(f.ensembl.transcript_ids) :
                             f.ensembl.protein[id].exc = "none"}
                /\ Len(transcripts) = 0 =>
                      f.pc = "raised" /\ f.out.exc = "ValueError"
                /\ (Len(transcripts) > 0 /\ fits # {}) =>
                      /\ f.pc = "done"
                      /\ f.out = construct_gene_object(f.ensembl,
                                                       transcripts[first][1])
                /\ (Len(transcripts) > 0 /\ fits = {}) =>
                      f.pc = "raised" /\ f.out.exc = "IndexError"

IsMinimise(frame) == frame.op = "minimise_transcripts"

\* the (transcript ID, length) items of the gene's transcripts that can be
\* constructed
Constructible(ensembl) ==
    LET transcripts == get_transcript_ids_sorted_by_length(ensembl)
    IN  {transcripts[i] : i \in {k \in 1..Len(transcripts) :
             construct_gene_object(ensembl, transcripts[k][1]).exc = "none"}}

\* the de novos of a list, each as often as listed, in a transcript's coding
\* region
CountIn(ensembl, transcript_id, de_novos) ==
    Cardinality({i \in 1..Len(de_novos) :
        in_coding_region(construct_gene_object(ensembl, transcript_id).val,
                         de_novos[i])})

\* every de novo of the list is in a transcript that can be constructed
AllPlaceable(ensembl, de_novos) ==
    \A i \in 1..Len(de_novos) :
        \E item \in Constructible(ensembl) :
            CountIn(ensembl, item[1], <<de_novos[i]>>) = 1

\* C15: minimise_transcripts returns transcripts that together hold all the de
\* novos, when each de novo is in a transcript that can be constructed; every
\* transcript returned by a call holds, of the de novos still uncovered, at
\* least one and as many as any transcript does, and is as long as any
\* transcript with that count; for no de novos it returns [].
C15_MinimalTranscriptsCoverAll ==
    \A c \in Threads :
        IsMinimise(call[c]) =>
            LET f == call[c]
            IN  /\ (f.given = << >> /\ f.pc \in {"done", "raised"}) =>
                      f.out = Ok(<< >>)
                /\ (AllPlaceable(f.ensembl, f.given)
                        /\ f.pc \in {"done", "raised"}) =>
                      /\ f.pc = "done"
                      /\ f.out = Ok(f.result)
                      /\ \A i \in 1..Len(f.given) :
                            \E k \in 1..Len(f.out.val) :
                                CountIn(f.ensembl, f.out.val[k][1], <<f.given[i]>>) = 1
                /\ \A n \in 1..Len(f.levels) :
                      LET uncovered == f.levels[n].de_novos
                          returned == f.levels[n].max_transcript
                      IN  /\ returned # << >>
                          /\ \A k \in 1..Len(returned) :
                                /\ <<returned[k][1], returned[k][3]>>
                                       \in Constructible(f.ensembl)
                                /\ returned[k][2] =
                                       CountIn(f.ensembl, returned[k][1], uncovered)
                                /\ returned[k][2] > 0
                                /\ \A item \in Constructible(f.ensembl) :
                                      LET count == CountIn(f.ensembl, item[1], uncovered)
                                      IN  /\ count <= returned[k][2]
                                          /\ count = returned[k][2] =>
                                                item[2] <= returned[k][3]

\* ENST_B, which holds both de novos, was returned although ENST_A, which
\* holds one, is the longer
C15_Witness ==
    \E c \in Threads :
        /\ IsMinimise(call[c])
        /\ call[c].pc = "done"
        /\ call[c].given = <<2, 5>>
        /\ <<"ENST_A", 2>> \in Constructible(call[c].ensembl)
        /\ call[c].out.val = << <<"ENST_B", 2, 1>> >>

\* what the recursion has behind it
C16_RecursionBounded ==
    \A c \in Threads :
        IsMinimise(call[c]) =>
            LET f == call[c]
            IN  /\ f.depth = Len(f.levels)
                /\ f.depth + Cardinality(Range(f.de_novos))
                       <= Cardinality(Range(f.given))
                /\ f.pc = "done" => f.de_novos = << >>
                /\ (f.pc \in {"done", "raised"}
                        /\ ~AllPlaceable(f.ensembl, f.given)) =>
                      f.pc = "raised" /\ f.out.exc = "ValueError"

\* a call either ends or calls itself with fewer distinct de novos
C16_CallsShrink ==
    \A c \in Threads :
        (IsMinimise(call[c]) /\ call[c].pc = "minimise" /\ call'[c] # call[c]) =>
            \/ call'[c].pc \in {"done", "raised"}
            \/ /\ call'[c].pc = "minimise"
               /\ call'[c].depth = call[c].depth + 1
               /\ Range(call'[c].de_novos) \subseteq Range(call[c].de_novos)
               /\ Range(call'[c].de_novos) # Range(call[c].de_novos)
               /\ \E d \in Range(call[c].de_novos) \ Range(call'[c].de_novos) :
                     CountIn(call[c].ensembl,
                             call'[c].levels[call'[c].depth].max_transcript[1][1],
                             <<d>>) = 1

\* C16: minimise_transcripts terminates.  Every recursive call is made with a
\* proper subset of the distinct de novos of its caller, the chosen transcript
\* holding one of them at least, so the calls are at most as deep as there are
\* distinct de novos; the recursion ends at the empty list, and with a de novo
\* that is in no transcript the call raises.
C16_MinimiseTerminates ==
    [](C16_RecursionBounded) /\ [][C16_CallsShrink]_vars

\* ENST_A was chosen for 9, and the call for the leftover 7, which no
\* transcript holds, has raised
C16_Witness ==
    \E c \in Threads :
        /\ IsMinimise(call[c])
        /\ call[c].given = <<9, 7>>
        /\ call[c].depth = 1
        /\ call[c].de_novos = <<7>>
        /\ call[c].pc = "raised"

\* the frames of add_conservation_scores, called directly or by
\* load_conservation
IsScoring(frame) == frame.op \in {"add_conservation_scores", "load_conservation"}

\* the chromosome positions of the CDS
CdsChromPositions == {pos \in GenePositions(transcript) :
                         in_coding_region(transcript, pos)}

\* the scores have a value for the whole CDS
ScoresHoldCds(scores) == CdsChromPositions \subseteq DOMAIN scores

\* C17: when the scores lack a value for part of the CDS,
\* add_conservation_scores raises ValueError and leaves conservation_scores as
\* it was, and load_conservation returns the transcript; otherwise
\* conservation_scores ends as the score of the chromosome position of every
\* CDS offset 0..cds_length, and of nothing else.
C17_ScoresForWholeCdsOrValueError ==
    \A c \in Threads :
        (IsScoring(call[c]) /\ call[c].pc \in {"done", "raised"}) =>
            LET f == call[c]
            IN  /\ ~ScoresHoldCds(f.scores) =>
                      /\ transcript.conservation_scores = f.before
                      /\ f.op = "add_conservation_scores" =>
                            f.pc = "raised" /\ f.out.exc = "ValueError"
                      /\ f.op = "load_conservation" =>
                            f.pc = "done" /\ f.out = Ok(transcript)
                /\ ScoresHoldCds(f.scores) =>
                      /\ f.pc = "done"
                      /\ transcript.conservation_scores =
                             [cds_pos \in 0..f.cds_length |->
                                 f.scores[get_position_on_chrom(transcript, cds_pos)]]

=============================================================================
